---- MODULE Spec2Model ----
(***************************************************************************)
(* A model of the moon7-bits library: 32-bit bitfield primitives (mask.ts), *)
(* single-bit wrappers and analysis helpers (util.ts), the BitField         *)
(* constants (type.ts) and the named-collection builders (named.ts).        *)
(*                                                                          *)
(* A JavaScript value is a record [t, neg, on].  For t = "number" it is the *)
(* integer  SUM {2^i : i \in on} - (IF neg THEN 2^32 ELSE 0), which covers  *)
(* every number in [-2^32, 2^32) exactly once: the unsigned 32-bit values  *)
(* have neg = FALSE, the negative int32 values have neg = TRUE and bit 31  *)
(* in on.  Numeric (===) equality is therefore equality of records.        *)
(***************************************************************************)
EXTENDS Integers, Sequences, FiniteSets, TLC

VARIABLES call, ret, collection

vars == <<call, ret, collection>>

----------------------------------------------------------------------------
(* Bounds of the explored inputs *)

LowBits == 2
HighBits == 2
MaxShortLen == 9
MaxExtraLen == 1
MaxNames == 3
MaxPosition == 1

----------------------------------------------------------------------------
(* JavaScript numbers and the int32 operators the library uses *)

W == 32

BitPos == 0 .. (W - 1)

Number(neg, on) == [t |-> "number", neg |-> neg, on |-> on]

Undefined == [t |-> "undefined", neg |-> FALSE, on |-> {}]

MaskFn == [t |-> "function", neg |-> FALSE, on |-> {}]

\* Object.prototype and its built-in methods, which every object literal inherits
ObjectPrototype == [t |-> "object", neg |-> FALSE, on |-> {}]

BuiltinFn == [t |-> "builtin function", neg |-> FALSE, on |-> {}]

\* the outcome of a call that throws
Thrown == [t |-> "throw", neg |-> FALSE, on |-> {}]

Zero == Number(FALSE, {})

One == Number(FALSE, {0})

\* the bit pattern of ToInt32 / ToUint32 of a value (undefined, functions and plain objects convert to NaN, then 0)
Pattern(v) == IF v.t = "number" THEN v.on ELSE {}

Int32Of(S) == Number((W - 1) \in S, S)

Uint32Of(S) == Number(FALSE, S)

ToInt32(v) == Int32Of(Pattern(v))

ToUint32(v) == Uint32Of(Pattern(v))

RECURSIVE SumPow(_)
SumPow(S) == IF S = {} THEN 0
             ELSE LET k == CHOOSE x \in S : TRUE IN 2^k + SumPow(S \ {k})

\* the small non-negative integer n as a JavaScript number
NumOf(n) == Number(FALSE, {k \in 0 .. 30 : (n \div (2^k)) % 2 = 1})

\* the shift count of << and >>>: the low five bits of the right operand
ShiftCount(s) == SumPow(Pattern(s) \cap (0 .. 4))

BitAnd(a, b) == Int32Of(Pattern(a) \cap Pattern(b))

BitOr(a, b) == Int32Of(Pattern(a) \cup Pattern(b))

BitXor(a, b) == Int32Of((Pattern(a) \ Pattern(b)) \cup (Pattern(b) \ Pattern(a)))

BitNot(a) == Int32Of(BitPos \ Pattern(a))

Shl(a, s) == Int32Of({i + ShiftCount(s) : i \in Pattern(a)} \cap BitPos)

UShr(a, s) == Uint32Of({i - ShiftCount(s) : i \in {j \in Pattern(a) : j >= ShiftCount(s)}})

----------------------------------------------------------------------------
(* type.ts *)

ALL_signed == BitNot(Zero)

ALL == UShr(BitNot(Zero), Zero)

NONE == Zero

----------------------------------------------------------------------------
(* mask.ts *)

bitMask_signed(i) == Shl(One, i)

bitMask(i) == UShr(Shl(One, i), Zero)

checkMask_all(bits, mask) == BitAnd(bits, mask) = ToInt32(mask)

checkMask(bits, mask) == BitAnd(bits, mask) # Zero

applyMask_signed(bits, mask) == BitOr(bits, mask)

applyMask(bits, mask) == UShr(BitOr(bits, mask), Zero)

clearMask(bits, mask) == BitAnd(bits, BitNot(mask))

toggleMask_signed(bits, mask) == BitXor(bits, mask)

toggleMask(bits, mask) == UShr(BitXor(bits, mask), Zero)

----------------------------------------------------------------------------
(* util.ts *)

getBit(bits, index) == checkMask(bits, bitMask(index))

setBitOn_toggle(bits, index) == toggleMask(bits, bitMask(index))

setBitOn(bits, index) == applyMask(bits, bitMask(index))

setBitOff(bits, index) == clearMask(bits, bitMask(index))

setBit(bits, index, value) == IF value THEN setBitOn(bits, index) ELSE setBitOff(bits, index)

toggleBit(bits, index) == toggleMask(bits, bitMask(index))

\* Number.prototype.toString(2): the binary digits of the magnitude, most
\* significant first, after a "-" when the number is negative
Magnitude(v) ==
    IF ~v.neg THEN v.on
    ELSE IF v.on = {} THEN {W}
    ELSE LET k == CHOOSE x \in v.on : \A y \in v.on : x <= y
         IN {k} \cup {j \in BitPos : j > k /\ j \notin v.on}

Digits(M) ==
    IF M = {} THEN <<"0">>
    ELSE LET top == CHOOSE x \in M : \A y \in M : y <= x
         IN [i \in 1 .. (top + 1) |-> IF (top + 1 - i) \in M THEN "1" ELSE "0"]

toString2(v) == IF v.neg THEN <<"-">> \o Digits(Magnitude(v)) ELSE Digits(Magnitude(v))

padStart_end(str, length) ==
    IF Len(str) >= length THEN str
    ELSE str \o [i \in 1 .. (length - Len(str)) |-> "0"]

\* String.prototype.padStart(length, "0")
padStart(str, length) ==
    IF Len(str) >= length THEN str
    ELSE [i \in 1 .. (length - Len(str)) |-> "0"] \o str

toBinaryString(bits, length) == padStart(toString2(bits), length)

\* str.match(/.{1,n}/g): the string cut from the left into pieces of n
\* characters, the last one shorter; null (here the empty list) for ""
RECURSIVE matchUpTo(_, _)
matchUpTo(str, n) ==
    IF Len(str) = 0 THEN <<>>
    ELSE IF Len(str) <= n THEN <<str>>
    ELSE <<SubSeq(str, 1, n)>> \o matchUpTo(SubSeq(str, n + 1, Len(str)), n)

\* Array.prototype.join(sep)
RECURSIVE join(_, _)
join(parts, sep) ==
    IF Len(parts) = 0 THEN <<>>
    ELSE IF Len(parts) = 1 THEN parts[1]
    ELSE parts[1] \o sep \o join(Tail(parts), sep)

toFormattedBinaryString_oneSeparator(bits, length) ==
    LET str == toBinaryString(bits, length)
        blocks == matchUpTo(str, 8)
    IN  join([k \in 1 .. Len(blocks) |-> join(matchUpTo(blocks[k], 4), <<" ">>)], <<" ">>)

toFormattedBinaryString(bits, length) ==
    LET str == toBinaryString(bits, length)
        blocks == matchUpTo(str, 8)
    IN  IF blocks = <<>> THEN <<>>
        ELSE join([k \in 1 .. Len(blocks) |-> join(matchUpTo(blocks[k], 4), <<" ">>)],
                  <<" ", "-", " ">>)

RECURSIVE countBitsLoop(_, _)
countBitsLoop_length(count, value) ==
    IF value = Zero THEN count
    ELSE countBitsLoop(count + 1, UShr(value, One))

countBitsLoop(count, value) ==
    IF value = Zero THEN count
    ELSE countBitsLoop(count + (IF BitAnd(value, One) = One THEN 1 ELSE 0), UShr(value, One))

countBits(bits) == countBitsLoop(0, bits)

\* v - 1 for a number v > -2^32: the lowest set bit is cleared and every bit
\* below it set; 0 - 1 is -1, the all-ones pattern below zero
Minus1(v) ==
    IF v.on = {} THEN Number(TRUE, BitPos)
    ELSE LET k == CHOOSE x \in v.on : \A y \in v.on : x <= y
         IN Number(v.neg, (v.on \ {k}) \cup (0 .. (k - 1)))

isSingleBit_noZeroTest(bits) == BitAnd(bits, Minus1(bits)) = Zero

isSingleBit(bits) == bits # Zero /\ BitAnd(bits, Minus1(bits)) = Zero

----------------------------------------------------------------------------
(* named.ts: an object is a function from its own property names to      *)
(* values; what it does not own it inherits from Object.prototype          *)

EmptyObject == [k \in {} |-> Undefined]

\* an own data property is created or overwritten (object spread, and
\* assignment to a name that Object.prototype does not intercept)
SetProp(obj, k, v) == [x \in (DOMAIN obj) \cup {k} |-> IF x = k THEN v ELSE obj[x]]

\* obj[k] = v for a number or function v: the inherited __proto__ setter
\* takes the assignment and ignores a value that is not an object
Assign(obj, k, v) ==
    IF k = "__proto__" /\ k \notin DOMAIN obj THEN obj ELSE SetProp(obj, k, v)

\* obj[k]
GetProp(obj, k) ==
    IF k \in DOMAIN obj THEN obj[k]
    ELSE IF k = "__proto__" THEN ObjectPrototype
    ELSE IF k = "toString" THEN BuiltinFn
    ELSE Undefined

mask_strict(result, name) == IF name \in DOMAIN result THEN bitMask(GetProp(result, name)) ELSE Thrown

\* the accessor installed as result.mask, applied to a name
mask(result, name) == bitMask(GetProp(result, name))

defineBitFlags(definition) == Assign(definition, "mask", MaskFn)

RECURSIVE forEachName(_, _, _)
forEachName(result, names, k) ==
    IF k > Len(names) THEN result
    ELSE forEachName(Assign(result, names[k], NumOf(k - 1)), names, k + 1)

defineBitEnum(names) == Assign(forEachName(EmptyObject, names, 1), "mask", MaskFn)

----------------------------------------------------------------------------
(* Inputs *)

SamplePos == (0 .. (LowBits - 1)) \cup ((W - HighBits) .. (W - 1))

BitFields == {Uint32Of(S) : S \in SUBSET SamplePos} \cup {ALL, NONE}

Indices == {NumOf(i) : i \in BitPos}

\* the value used by the README's formatting examples
Examples == {NumOf(42)}

Lengths == (0 .. MaxShortLen) \cup ((W - 1) .. (W + MaxExtraLen))

Names == {"READ", "WRITE", "mask"}

\* defineBitEnum takes any strings as names
EnumNames == Names \cup {"__proto__"}

\* the names mask is asked for: those above, one no collection has, and one
\* every object inherits
MaskNames == EnumNames \cup {"OTHER", "toString"}

Positions == {NumOf(p) : p \in (0 .. MaxPosition) \cup {W - 1}}

Definitions == UNION {[S -> Positions] : S \in SUBSET Names}

RECURSIVE SeqsUpTo(_)
SeqsUpTo(n) ==
    IF n = 0 THEN {<<>>}
    ELSE SeqsUpTo(n - 1) \cup {Append(s, x) : s \in {q \in SeqsUpTo(n - 1) : Len(q) = n - 1}, x \in EnumNames}

NameLists == SeqsUpTo(MaxNames)

IsBitField(v) == v.t = "number" /\ ~v.neg /\ v.on \subseteq BitPos

----------------------------------------------------------------------------
(* The library is stateless apart from the collections it builds.  A state *)
(* records the call in progress (or "none" between calls), the value it    *)
(* returned, and the collection built by the last define call.             *)

Idle == [op |-> "none"]

Init ==
    /\ call = Idle
    /\ ret = Undefined
    /\ collection = EmptyObject

ClearMask ==
    /\ call = Idle
    /\ \E b \in BitFields, m \in BitFields :
        /\ call' = [op |-> "clearMask", bits |-> b, mask |-> m]
        /\ ret' = clearMask(b, m)
    /\ UNCHANGED collection

ApplyMask ==
    /\ call = Idle
    /\ \E b \in BitFields, m \in BitFields :
        /\ call' = [op |-> "applyMask", bits |-> b, mask |-> m]
        /\ ret' = applyMask(b, m)
    /\ UNCHANGED collection

ToggleMask ==
    /\ call = Idle
    /\ \E b \in BitFields, m \in BitFields :
        /\ call' = [op |-> "toggleMask", bits |-> b, mask |-> m]
        /\ ret' = toggleMask(b, m)
    /\ UNCHANGED collection

CheckMask ==
    /\ call = Idle
    /\ \E b \in BitFields, m \in BitFields :
        /\ call' = [op |-> "checkMask", bits |-> b, mask |-> m]
        /\ ret' = checkMask(b, m)
    /\ UNCHANGED collection

BitMask ==
    /\ call = Idle
    /\ \E i \in Indices :
        /\ call' = [op |-> "bitMask", index |-> i]
        /\ ret' = bitMask(i)
    /\ UNCHANGED collection

GetBit ==
    /\ call = Idle
    /\ \E b \in BitFields, i \in Indices :
        /\ call' = [op |-> "getBit", bits |-> b, index |-> i]
        /\ ret' = getBit(b, i)
    /\ UNCHANGED collection

SetBit ==
    /\ call = Idle
    /\ \E b \in BitFields, i \in Indices, v \in BOOLEAN :
        /\ call' = [op |-> "setBit", bits |-> b, index |-> i, value |-> v]
        /\ ret' = setBit(b, i, v)
    /\ UNCHANGED collection

SetBitOn ==
    /\ call = Idle
    /\ \E b \in BitFields, i \in Indices :
        /\ call' = [op |-> "setBitOn", bits |-> b, index |-> i]
        /\ ret' = setBitOn(b, i)
    /\ UNCHANGED collection

SetBitOff ==
    /\ call = Idle
    /\ \E b \in BitFields, i \in Indices :
        /\ call' = [op |-> "setBitOff", bits |-> b, index |-> i]
        /\ ret' = setBitOff(b, i)
    /\ UNCHANGED collection

ToggleBit ==
    /\ call = Idle
    /\ \E b \in BitFields, i \in Indices :
        /\ call' = [op |-> "toggleBit", bits |-> b, index |-> i]
        /\ ret' = toggleBit(b, i)
    /\ UNCHANGED collection

ToBinaryString ==
    /\ call = Idle
    /\ \E b \in BitFields, n \in Lengths :
        /\ call' = [op |-> "toBinaryString", bits |-> b, length |-> n]
        /\ ret' = toBinaryString(b, n)
    /\ UNCHANGED collection

ToFormattedBinaryString ==
    /\ call = Idle
    /\ \E b \in BitFields \cup Examples, n \in Lengths :
        /\ call' = [op |-> "toFormattedBinaryString", bits |-> b, length |-> n]
        /\ ret' = toFormattedBinaryString(b, n)
    /\ UNCHANGED collection

CountBits ==
    /\ call = Idle
    /\ \E b \in BitFields :
        /\ call' = [op |-> "countBits", bits |-> b]
        /\ ret' = countBits(b)
    /\ UNCHANGED collection

IsSingleBit ==
    /\ call = Idle
    /\ \E b \in BitFields :
        /\ call' = [op |-> "isSingleBit", bits |-> b]
        /\ ret' = isSingleBit(b)
    /\ UNCHANGED collection

\* the caller takes the returned value and is ready for the next call
Return ==
    /\ call # Idle
    /\ call' = Idle
    /\ ret' = Undefined
    /\ UNCHANGED collection

Next ==
    \/ ClearMask
    \/ ApplyMask
    \/ ToggleMask
    \/ CheckMask
    \/ BitMask
    \/ GetBit
    \/ SetBit
    \/ SetBitOn
    \/ SetBitOff
    \/ ToggleBit
    \/ ToBinaryString
    \/ ToFormattedBinaryString
    \/ CountBits
    \/ IsSingleBit
    \/ Return

Spec == Init /\ [][Next]_vars

----------------------------------------------------------------------------
(* Named collections: a define call builds a collection, which stays in    *)
(* place while its mask accessor is called with names.                     *)

DefineBitFlags ==
    /\ call = Idle
    /\ \E d \in Definitions :
        /\ call' = [op |-> "defineBitFlags", definition |-> d]
        /\ collection' = defineBitFlags(d)
        /\ ret' = collection'

DefineBitEnum ==
    /\ call = Idle
    /\ \E ns \in NameLists :
        /\ call' = [op |-> "defineBitEnum", names |-> ns]
        /\ collection' = defineBitEnum(ns)
        /\ ret' = collection'

\* result.mask(name) on the collection of the last define call; the call
\* record keeps that define call in its field "of"
Mask ==
    /\ call.op \in {"defineBitFlags", "defineBitEnum", "mask"}
    /\ \E n \in MaskNames :
        /\ call' = [op |-> "mask", name |-> n, of |-> (IF call.op = "mask" THEN call.of ELSE call)]
        /\ ret' = mask(collection, n)
    /\ UNCHANGED collection

NamedNext ==
    \/ DefineBitFlags
    \/ DefineBitEnum
    \/ Mask
    \/ Return

NamedSpec == Init /\ [][NamedNext]_vars

----------------------------------------------------------------------------
(* Chained use: the caller picks a starting BitField and then feeds each   *)
(* returned value to the next operation.                                   *)

ChainOps == {"applyMask", "clearMask", "toggleMask", "setBit", "setBitOn", "setBitOff", "toggleBit"}

ChainIndices == {NumOf(i) : i \in SamplePos}

\* single-bit masks and the two saturated ones; a chain composes the others
ChainMasks == {bitMask(i) : i \in ChainIndices} \cup {ALL, NONE}

InChain == call.op \in ChainOps \cup {"start"}

ChainStart ==
    /\ call = Idle
    /\ \E b \in BitFields :
        /\ call' = [op |-> "start"]
        /\ ret' = b
    /\ UNCHANGED collection

ChainApplyMask ==
    /\ InChain
    /\ \E m \in ChainMasks :
        /\ call' = [op |-> "applyMask", bits |-> ret, mask |-> m]
        /\ ret' = applyMask(ret, m)
    /\ UNCHANGED collection

ChainClearMask ==
    /\ InChain
    /\ \E m \in ChainMasks :
        /\ call' = [op |-> "clearMask", bits |-> ret, mask |-> m]
        /\ ret' = clearMask(ret, m)
    /\ UNCHANGED collection

ChainToggleMask ==
    /\ InChain
    /\ \E m \in ChainMasks :
        /\ call' = [op |-> "toggleMask", bits |-> ret, mask |-> m]
        /\ ret' = toggleMask(ret, m)
    /\ UNCHANGED collection

ChainSetBit ==
    /\ InChain
    /\ \E i \in ChainIndices, v \in BOOLEAN :
        /\ call' = [op |-> "setBit", bits |-> ret, index |-> i, value |-> v]
        /\ ret' = setBit(ret, i, v)
    /\ UNCHANGED collection

ChainSetBitOn ==
    /\ InChain
    /\ \E i \in ChainIndices :
        /\ call' = [op |-> "setBitOn", bits |-> ret, index |-> i]
        /\ ret' = setBitOn(ret, i)
    /\ UNCHANGED collection

ChainSetBitOff ==
    /\ InChain
    /\ \E i \in ChainIndices :
        /\ call' = [op |-> "setBitOff", bits |-> ret, index |-> i]
        /\ ret' = setBitOff(ret, i)
    /\ UNCHANGED collection

ChainToggleBit ==
    /\ InChain
    /\ \E i \in ChainIndices :
        /\ call' = [op |-> "toggleBit", bits |-> ret, index |-> i]
        /\ ret' = toggleBit(ret, i)
    /\ UNCHANGED collection

ChainNext ==
    \/ ChainStart
    \/ ChainApplyMask
    \/ ChainClearMask
    \/ ChainToggleMask
    \/ ChainSetBit
    \/ ChainSetBitOn
    \/ ChainSetBitOff
    \/ ChainToggleBit

ChainSpec == Init /\ [][ChainNext]_vars

----------------------------------------------------------------------------
(* Properties *)

\* C1: for every BitField bits, clearMask(bits, NONE) equals bits and
\* clearMask(bits, ALL) equals NONE.
C1_ClearMaskIdentities ==
    (call.op = "clearMask" /\ IsBitField(call.bits)) =>
        /\ (call.mask = NONE => ret = call.bits)
        /\ (call.mask = ALL => ret = NONE)

\* C2: setBitOn on a bit that is already set, and setBitOff on a bit that is
\* already clear, return a value equal to the input.
C2_SetterIdempotence ==
    /\ (call.op = "setBitOn" /\ IsBitField(call.bits) /\ getBit(call.bits, call.index))
            => ret = call.bits
    /\ (call.op = "setBitOff" /\ IsBitField(call.bits) /\ ~getBit(call.bits, call.index))
            => ret = call.bits

\* C3: for length in [0, 32], toBinaryString(bits, length) has exactly
\* length characters, each "0" or "1", and they are the low-order length
\* bits of bits, most significant first.
C3_BinaryStringExactLength ==
    (call.op = "toBinaryString" /\ IsBitField(call.bits) /\ call.length \in 0 .. W) =>
        /\ Len(ret) = call.length
        /\ \A i \in 1 .. Len(ret) : ret[i] \in {"0", "1"}
        /\ \A i \in 1 .. Len(ret) : (ret[i] = "1") <=> ((Len(ret) - i) \in call.bits.on)

\* C4: for every name of the definition given to defineBitFlags (the name
\* "mask" included), the collection holds the definition's position under
\* that name and mask(name) is bitMask of that position.
C4_FlagsKeepDefinition ==
    (call.op = "mask" /\ call.of.op = "defineBitFlags" /\ call.name \in DOMAIN call.of.definition) =>
        /\ GetProp(collection, call.name) = call.of.definition[call.name]
        /\ ret = bitMask(call.of.definition[call.name])

LastIndexOf(names, n) == CHOOSE k \in 1 .. Len(names) :
                            names[k] = n /\ \A j \in (k + 1) .. Len(names) : names[j] # n

\* C5: for every name given to defineBitEnum (the name "mask" included), the
\* collection holds the 0-based index of the name's last occurrence and
\* mask(name) is bitMask of that index.
C5_EnumLastOccurrence ==
    (call.op = "mask" /\ call.of.op = "defineBitEnum"
        /\ \E k \in 1 .. Len(call.of.names) : call.of.names[k] = call.name) =>
        /\ GetProp(collection, call.name) = NumOf(LastIndexOf(call.of.names, call.name) - 1)
        /\ ret = bitMask(NumOf(LastIndexOf(call.of.names, call.name) - 1))

\* C6: for every BitField bits and index i in [0, 32), bit i of
\* setBitOn(bits, i) is set and bit i of setBitOff(bits, i) is clear.
C6_SetThenGet ==
    /\ (call.op = "setBitOn" /\ IsBitField(call.bits)) => getBit(ret, call.index)
    /\ (call.op = "setBitOff" /\ IsBitField(call.bits)) => ~getBit(ret, call.index)

C6_Witness ==
    /\ call.op = "setBitOff"
    /\ (W - 1) \in call.bits.on
    /\ call.index = NumOf(W - 2)
    /\ (W - 2) \in call.bits.on
    /\ ~getBit(ret, call.index)

\* C7: toggling the same mask twice gives back the original BitField.
C7_ToggleSelfInverse ==
    (call.op = "toggleMask" /\ IsBitField(call.bits) /\ IsBitField(call.mask)) =>
        toggleMask(ret, call.mask) = call.bits

C7_Witness ==
    /\ call.op = "toggleMask"
    /\ (W - 1) \in call.bits.on
    /\ (W - 1) \notin call.mask.on
    /\ call.mask # NONE
    /\ ret # call.bits
    /\ toggleMask(ret, call.mask) = call.bits

\* C8: applyMask(bits, NONE) equals bits and applyMask(bits, ALL) equals ALL.
C8_ApplyMaskIdentities ==
    (call.op = "applyMask" /\ IsBitField(call.bits)) =>
        /\ (call.mask = NONE => ret = call.bits)
        /\ (call.mask = ALL => ret = ALL /\ ret.on = BitPos /\ ~ret.neg)

C8_Witness ==
    /\ call.op = "applyMask"
    /\ call.mask = ALL
    /\ call.bits # ALL
    /\ (W - 1) \notin call.bits.on
    /\ ret = ALL

\* C9: clearMask(applyMask(bits, mask), mask) is the unsigned value of
\* bits AND (NOT mask): the masked positions zero, every other bit as in bits.
C9_ApplyThenClear ==
    (call.op = "applyMask" /\ IsBitField(call.bits) /\ IsBitField(call.mask)) =>
        clearMask(ret, call.mask) = Uint32Of(call.bits.on \ call.mask.on)

\* C10: countBits(bits) is the number of indices i in [0, 32) with
\* getBit(bits, i); it is 0 exactly for NONE, and 32 for ALL.
C10_PopulationCount ==
    (call.op = "countBits" /\ IsBitField(call.bits)) =>
        /\ ret = Cardinality({i \in Indices : getBit(call.bits, i)})
        /\ (ret = 0 <=> call.bits = NONE)
        /\ (call.bits = ALL => ret = W)

C10_Witness ==
    /\ call.op = "countBits"
    /\ call.bits = ALL
    /\ ret = W

\* C11: isSingleBit(bits) is true exactly when countBits(bits) is 1; it is
\* false for NONE.
C11_SingleBitIffCountOne ==
    (call.op = "isSingleBit" /\ IsBitField(call.bits)) =>
        /\ (ret <=> (countBits(call.bits) = 1))
        /\ (call.bits = NONE => ~ret)

C11_Witness ==
    /\ call.op = "isSingleBit"
    /\ call.bits = Uint32Of({W - 1})
    /\ ret

\* the number a base-2 numeral denotes: digit i of n stands for 2^(n - i)
ParseBinary(str) == Number(FALSE, {Len(str) - i : i \in {j \in 1 .. Len(str) : str[j] = "1"}})

IsBinaryNumeral(str) == Len(str) >= 1 /\ \A i \in 1 .. Len(str) : str[i] \in {"0", "1"}

\* C12: for length >= 32, the string toBinaryString(bits, length) read as a
\* base-2 numeral is exactly bits.
C12_BinaryStringRoundTrip ==
    (call.op = "toBinaryString" /\ IsBitField(call.bits) /\ call.length >= W) =>
        /\ IsBinaryNumeral(ret)
        /\ ParseBinary(ret) = call.bits

C12_Witness ==
    /\ call.op = "toBinaryString"
    /\ call.length = W + 1
    /\ call.bits = Uint32Of({0, W - 1})
    /\ Len(ret) = W + 1
    /\ ParseBinary(ret) = call.bits

\* the digits of str with " " before every 4th and " - " before every 8th
RECURSIVE Grouped(_, _)
Grouped(str, i) ==
    IF i > Len(str) THEN <<>>
    ELSE (IF i > 1 /\ (i - 1) % 8 = 0 THEN <<" ", "-", " ">>
          ELSE IF i > 1 /\ (i - 1) % 4 = 0 THEN <<" ">>
          ELSE <<>>) \o <<str[i]>> \o Grouped(str, i + 1)

IsDigit(c) == c \in {"0", "1"}

\* C13: when bits fits in length >= 1 digits, toFormattedBinaryString(bits,
\* length) is the digits of toBinaryString(bits, length) in order, in groups
\* of 4 from the left, " " inside each block of 8 and " - " between blocks;
\* without the separators it is toBinaryString(bits, length).
C13_FormattedGrouping ==
    (call.op = "toFormattedBinaryString" /\ IsBitField(call.bits) /\ call.length >= 1
        /\ call.bits.on \subseteq 0 .. (call.length - 1)) =>
        /\ ret = Grouped(toBinaryString(call.bits, call.length), 1)
        /\ SelectSeq(ret, IsDigit) = toBinaryString(call.bits, call.length)
        /\ Len(SelectSeq(ret, IsDigit)) = call.length
        /\ ((call.bits = NumOf(42) /\ call.length = 8) =>
                ret = <<"0", "0", "1", "0", " ", "1", "0", "1", "0">>)

C13_Witness ==
    /\ call.op = "toFormattedBinaryString"
    /\ call.bits = NumOf(42)
    /\ call.length = 9
    /\ ret = <<"0", "0", "0", "1", " ", "0", "1", "0", "1", " ", "-", " ", "0">>

\* C14: checkMask(bits, mask) is true exactly when some index in [0, 32) is
\* set in both bits and mask; so it is false for mask NONE, and for mask ALL
\* it is true exactly when bits is not NONE.
C14_CheckMaskAny ==
    (call.op = "checkMask" /\ IsBitField(call.bits) /\ IsBitField(call.mask)) =>
        /\ (ret <=> (\E i \in BitPos : i \in call.bits.on /\ i \in call.mask.on))
        /\ (call.mask = NONE => ~ret)
        /\ (call.mask = ALL => (ret <=> call.bits # NONE))

C14_Witness ==
    /\ call.op = "checkMask"
    /\ call.bits = Uint32Of({0, W - 1})
    /\ call.mask = Uint32Of({1, W - 1})
    /\ ret

\* the index of a call as an integer
IndexOf(i) == SumPow(i.on)

\* C15: for every index i in [0, 32), bitMask(i) is the non-negative
\* integer 2^i, only bit i set, and no other index gives the same mask.
C15_BitMaskPowerOfTwo ==
    (call.op = "bitMask" /\ IndexOf(call.index) \in BitPos) =>
        /\ ret = Number(FALSE, {IndexOf(call.index)})
        /\ IsBitField(ret)
        /\ \A j \in Indices : bitMask(j) = ret => j = call.index

C15_Witness ==
    /\ call.op = "bitMask"
    /\ call.index = NumOf(W - 1)
    /\ ret = Number(FALSE, {W - 1})

\* C16: setBit(bits, i, value) is setBitOn(bits, i) for value true and
\* setBitOff(bits, i) for value false, and it is the BitField with bit i
\* equal to value and every other bit as in bits.
C16_SetBitFrame ==
    (call.op = "setBit" /\ IsBitField(call.bits) /\ IndexOf(call.index) \in BitPos) =>
        /\ ret = (IF call.value THEN setBitOn(call.bits, call.index)
                                 ELSE setBitOff(call.bits, call.index))
        /\ ret = Number(FALSE, IF call.value THEN call.bits.on \cup {IndexOf(call.index)}
                                              ELSE call.bits.on \ {IndexOf(call.index)})

\* C17: ALL is 2^32 - 1 with all 32 bits set and NONE is 0; every bit of
\* ALL reads true and every bit of NONE false; toggling NONE by ALL gives
\* ALL and toggling ALL by ALL gives NONE.
C17_AllNoneComplements ==
    /\ ALL = Number(FALSE, BitPos)
    /\ NONE = Number(FALSE, {})
    /\ (call.op = "getBit" /\ call.bits = ALL) => ret
    /\ (call.op = "getBit" /\ call.bits = NONE) => ~ret
    /\ (call.op = "toggleMask" /\ call.bits = NONE /\ call.mask = ALL) => ret = ALL
    /\ (call.op = "toggleMask" /\ call.bits = ALL /\ call.mask = ALL) => ret = NONE

C17_Witness ==
    /\ call.op = "toggleMask"
    /\ call.bits = ALL
    /\ call.mask = ALL
    /\ ret = NONE
    /\ Cardinality(ALL.on) = W

\* the collection the define call c returned
Built(c) == IF c.op = "defineBitFlags" THEN defineBitFlags(c.definition) ELSE defineBitEnum(c.names)

\* C18: mask(name) with a name that is not a key of the collection raises
\* no error: it returns bitMask(undefined), which is bitMask(0) = 1, and
\* leaves the collection as the define call built it.
C18_UnknownNameSilent ==
    (call.op = "mask" /\ call.name \notin DOMAIN collection) =>
        /\ ret # Thrown
        /\ ret = bitMask(Undefined)
        /\ ret = bitMask(NumOf(0))
        /\ ret = Number(FALSE, {0})
        /\ collection = Built(call.of)

C18_Witness ==
    /\ call.op = "mask"
    /\ call.of.op = "defineBitEnum"
    /\ call.of.names = <<"READ", "WRITE">>
    /\ call.name = "OTHER"
    /\ ret = One
    /\ DOMAIN collection = {"READ", "WRITE", "mask"}

\* C19: the own keys of defineBitEnum(...names) are exactly the distinct
\* names given plus "mask"; with no names the only member is the mask
\* accessor.
C19_EnumOwnKeys ==
    (call.op = "defineBitEnum") =>
        /\ DOMAIN collection = {call.names[k] : k \in 1 .. Len(call.names)} \cup {"mask"}
        /\ (call.names = <<>> => (DOMAIN collection = {"mask"} /\ collection["mask"] = MaskFn))

\* C20: starting from a BitField, after any sequence of applyMask,
\* clearMask, toggleMask, setBit, setBitOn, setBitOff and toggleBit, each
\* fed the previous result, the value is an integer in [0, 2^32).
C20_UnsignedClosure == InChain => IsBitField(ret)

====
